---- MODULE Spec2Model ----
(***************************************************************************)
(* A model of package dough (itsoneiota/dough-go): the Money value object, *)
(* its parser (New / strToInt), its formatter (Amount), the currency-      *)
(* checked arithmetic (Add, Sub, Mul, Cmp) and the allocator (Share).      *)
(*                                                                         *)
(* Share works on float64 ratios.  float64 arithmetic is modelled          *)
(* bit-exactly: a float is a sign, a significand of at most 53 bits and    *)
(* the binary exponent of its last bit; division and multiplication        *)
(* compute the exact result and round it to nearest, ties to even.         *)
(***************************************************************************)
EXTENDS Integers, Sequences, FiniteSets

\* ------------------------------------------------------------------ bounds

\* |x.a| of the Money values handed to Share.
MaxAtoms == 55
\* The largest single weighting.
MaxWeight == 4
\* The longest weighting slice.
MaxN == 3
\* The longest amount string handed to New.
MaxLen == 5
\* The largest decimal digit in an amount string handed to New.
MaxDigit == 2
\* |atoms| of the Money values handed to Add, Sub and Cmp.
MaxOperand == 3
\* The turns of Share's remainder loop that are followed; the loop's own
\* counter has no bound.
MaxTurns == 6
\* |x.a| of the Money values of the calls of Share that run in parallel.
MaxParAtoms == 3

\* ------------------------------------------------------------------ float64

\* Significand width of an IEEE 754 binary64 (the float64 of the source).
Precision == 53

Abs(k) == IF k < 0 THEN -k ELSE k

RECURSIVE Pow2(_)
Pow2(k) == IF k = 0 THEN 1 ELSE 2 * Pow2(k - 1)

\* The binary digits of a natural number, most significant first; <<>> for 0.
RECURSIVE NatBits(_)
NatBits(k) == IF k = 0 THEN <<>> ELSE Append(NatBits(k \div 2), k % 2)

\* The natural number a bit sequence denotes.
RECURSIVE BitsNat(_)
BitsNat(b) ==
    IF b = <<>> THEN 0
    ELSE 2 * BitsNat(SubSeq(b, 1, Len(b) - 1)) + b[Len(b)]

\* The last position in lo..hi where b holds a 0, or 0 when it holds none
\* (by halves, so that the recursion stays shallow).
RECURSIVE LastZero(_, _, _)
LastZero(b, lo, hi) ==
    IF lo > hi THEN 0
    ELSE IF lo = hi THEN (IF b[lo] = 0 THEN lo ELSE 0)
    ELSE LET mid == (lo + hi) \div 2
             r   == LastZero(b, mid + 1, hi)
         IN  IF r # 0 THEN r ELSE LastZero(b, lo, mid)

\* b + 1 on a bit sequence; an all-ones b carries out into a sequence one
\* bit longer.
BitsInc(b) ==
    LET k == LastZero(b, 1, Len(b))
    IN  IF k = 0
        THEN <<1>> \o [j \in 1..Len(b) |-> 0]
        ELSE [j \in 1..Len(b) |-> IF j < k THEN b[j] ELSE IF j = k THEN 1 ELSE 0]

\* Bits lo..hi of b * k + carry for a bit sequence b and a natural k, with
\* the carry out of bit lo (by halves; the low half, whose carry the high
\* half starts from, is worked out first).
RECURSIVE BitsTimesRange(_, _, _, _, _)
BitsTimesRange(b, lo, hi, k, carry) ==
    IF lo = hi
    THEN LET v == b[lo] * k + carry
         IN  [m |-> <<v % 2>>, carry |-> v \div 2]
    ELSE LET mid  == (lo + hi) \div 2
             low  == BitsTimesRange(b, mid + 1, hi, k, carry)
         IN  IF low.carry = 0
             THEN LET high == BitsTimesRange(b, lo, mid, k, 0)
                  IN  [m |-> high.m \o low.m, carry |-> high.carry]
             ELSE LET high == BitsTimesRange(b, lo, mid, k, low.carry)
                  IN  [m |-> high.m \o low.m, carry |-> high.carry]

\* b * k for a non-empty bit sequence b and a natural k >= 1.
BitsTimes(b, k) ==
    LET p == BitsTimesRange(b, 1, Len(b), k, 0)
    IN  NatBits(p.carry) \o p.m

\* The float64 zero (the sign of zero never reaches an int).
FZero == [s |-> 1, m |-> <<>>, e |-> 0]

\* Round to nearest, ties to even: the float64 nearest to s * (b + t) * 2^e,
\* where b is a bit sequence with a leading 1 and sticky says that a non-zero
\* tail t < 1 was cut off after b.
RoundNearestEven(s, b, e, sticky) ==
    IF Len(b) <= Precision THEN [s |-> s, m |-> b, e |-> e]
    ELSE LET keep  == SubSeq(b, 1, Precision)
             guard == b[Precision + 1]
             tail  == sticky \/ \E j \in (Precision + 2)..Len(b) : b[j] = 1
             up    == guard = 1 /\ (tail \/ keep[Precision] = 1)
             cut   == Len(b) - Precision
             inc   == BitsInc(keep)
         IN  IF ~up THEN [s |-> s, m |-> keep, e |-> e + cut]
             ELSE IF Len(inc) > Precision
                  THEN [s |-> s, m |-> SubSeq(inc, 1, Precision), e |-> e + cut + 1]
                  ELSE [s |-> s, m |-> inc, e |-> e + cut]

\* The next cnt bits of the binary expansion of r / q (0 <= r < q), with
\* the remainder left after them (by halves).
RECURSIVE DivBits(_, _, _)
DivBits(r, q, cnt) ==
    IF cnt = 0 THEN [m |-> <<>>, r |-> r]
    ELSE IF cnt = 1
    THEN LET bit == IF 2 * r >= q THEN 1 ELSE 0
         IN  [m |-> <<bit>>, r |-> 2 * r - bit * q]
    ELSE LET high == DivBits(r, q, cnt \div 2)
             low  == DivBits(high.r, q, cnt - cnt \div 2)
         IN  [m |-> high.m \o low.m, r |-> low.r]

\* The number of doublings that bring r (0 < r < q) to q or above: the
\* position of the first 1 in the binary expansion of r / q.
RECURSIVE LeadingShift(_, _)
LeadingShift(r, q) == IF r >= q THEN 0 ELSE 1 + LeadingShift(2 * r, q)

\* float64(k) for an integer k small enough to convert exactly.
FromInt(k) == [s |-> IF k < 0 THEN -1 ELSE 1, m |-> NatBits(Abs(k)), e |-> 0]

\* float64(w) / float64(q) for naturals w and q > 0: the correctly rounded
\* quotient.  The significand is the integer part of w / q followed by
\* fraction bits, Precision + 1 significant bits in all (the last one decides
\* the rounding, the remainder after it is the sticky tail).
FDiv(w, q) ==
    IF w = 0 THEN FZero
    ELSE LET ip   == NatBits(w \div q)
             r    == w % q
             skip == IF ip = <<>> THEN LeadingShift(r, q) - 1 ELSE 0
             r0   == r * Pow2(skip)
             cnt  == IF Len(ip) > Precision THEN 0 ELSE Precision + 1 - Len(ip)
             dv   == DivBits(r0, q, cnt)
         IN  RoundNearestEven(1, ip \o dv.m, -(skip + cnt), dv.r # 0)

\* f * g for a float f and g = float64(k): the correctly rounded product.
FMul(f, g) ==
    IF f.m = <<>> \/ g.m = <<>> THEN FZero
    ELSE RoundNearestEven(f.s * g.s, BitsTimes(f.m, BitsNat(g.m)), f.e + g.e, FALSE)

\* The integer part of f, toward zero.
IntegerPart(f) ==
    IF f.m = <<>> THEN 0
    ELSE IF f.e >= 0 THEN f.s * BitsNat(f.m) * Pow2(f.e)
    ELSE IF -f.e >= Len(f.m) THEN 0
    ELSE f.s * BitsNat(SubSeq(f.m, 1, Len(f.m) + f.e))

\* TRUE when f is not an integer.
HasFraction(f) ==
    /\ f.m # <<>>
    /\ f.e < 0
    /\ \E j \in 1..Len(f.m) : j > Len(f.m) + f.e /\ f.m[j] = 1

\* Mutant of TruncInt: math.Floor in the place of math.Trunc.
FloorInt(f) == IF f.s < 0 /\ HasFraction(f) THEN IntegerPart(f) - 1 ELSE IntegerPart(f)

\* int(math.Trunc(f)).
TruncInt(f) == IntegerPart(f)

\* ------------------------------------------------------------------ state

VARIABLES
    x,            \* the Money the caller holds: [c |-> currency.Unit, a |-> atoms]
    weightings,   \* the caller's weighting slice; Share works on its backing array
    given,        \* the weightings as they were when the caller passed them
    pc,           \* where the running operation stands
    n,            \* Share: len(weightings)
    sum,          \* Share: the sum of the weightings
    allocations,  \* Share: atoms allocated to each party so far
    rem,          \* Share: atoms still to hand out
    d,            \* Share: the unit (+1 / -1) the remainder loop hands out
    i,            \* Share: the remainder loop's counter
    res,          \* Share: the Money values returned
    prev,         \* the result of the caller's earlier Share, <<>> if none
    cur,          \* New: the currency code passed
    amt,          \* New: the amount string passed, a sequence of characters
    err,          \* the error the last operation returned, "nil" if none
    out,          \* the string Amount returned
    y,            \* Add, Sub, Cmp: the other Money
    z,            \* Add, Sub: the Money returned
    cmp,          \* Cmp: the ordering returned
    calls         \* the calls of Share running in parallel on weightings,
                  \* each with its own receiver and locals; <<>> if none

shareVars == <<weightings, given, n, sum, allocations, rem, d, i, res, prev>>
moneyVars == <<cur, amt, err, out, y, z, cmp>>
vars == <<x, pc, shareVars, moneyVars, calls>>

\* ------------------------------------------------------------------ Money

\* The currency.Unit values the model uses, by their ISO 4217 code; "XXX"
\* is the zero Unit of the zero Money{} that comes with an error.
Units == {"GBP", "AUD", "EUR", "XXX"}

Money(c, a) == [c |-> c, a |-> a]

\* Money{}
ZeroMoney == Money("XXX", 0)

\* Currency: x.c.String()
Currency(m) == m.c

\* currency.ParseISO for the codes the model passes: a registered code gives
\* its Unit, anything else an error.
ParseISO(code) ==
    IF code \in {"GBP", "AUD", "EUR"}
    THEN [unit |-> code, err |-> "nil"]
    ELSE [unit |-> "XXX", err |-> "currency"]

\* The decimal digits, in order: DigitChars[k + 1] is the character of k.
DigitChars == <<"0", "1", "2", "3", "4", "5", "6", "7", "8", "9">>

IsDigit(ch) == \E k \in 1..Len(DigitChars) : DigitChars[k] = ch

DigitValue(ch) == (CHOOSE k \in 1..Len(DigitChars) : DigitChars[k] = ch) - 1

AllDigits(str) == \A k \in 1..Len(str) : IsDigit(str[k])

\* regexp "^(-)?(\d+)(\.([\d]{2}))?$" on amt: whether it matches, and the
\* submatches m[1] (the sign), m[2] (the digits before the point) and m[4]
\* (the two digits after it, "" when the optional group is absent).
FindStringSubmatch(str) ==
    LET neg  == Len(str) > 0 /\ str[1] = "-"
        body == IF neg THEN Tail(str) ELSE str
        len  == Len(body)
        m1   == IF neg THEN <<"-">> ELSE <<>>
    IN  IF len >= 1 /\ AllDigits(body)
        THEN [ok |-> TRUE, m1 |-> m1, m2 |-> body, m4 |-> <<>>]
        ELSE IF /\ len >= 4
                /\ body[len - 2] = "."
                /\ AllDigits(SubSeq(body, 1, len - 3))
                /\ AllDigits(SubSeq(body, len - 1, len))
        THEN [ok |-> TRUE, m1 |-> m1, m2 |-> SubSeq(body, 1, len - 3),
              m4 |-> SubSeq(body, len - 1, len)]
        ELSE [ok |-> FALSE, m1 |-> <<>>, m2 |-> <<>>, m4 |-> <<>>]

\* strconv.Atoi on a string of decimal digits: its value, digit by digit.
\* (Atoi fails on a value beyond 64 bits; that takes 19 digits or more.)
RECURSIVE Atoi(_)
Atoi(digits) ==
    IF digits = <<>> THEN 0
    ELSE 10 * Atoi(SubSeq(digits, 1, Len(digits) - 1)) + DigitValue(digits[Len(digits)])

\* strToInt: the atoms of an amount string, or an error.
StrToInt(str) ==
    LET m == FindStringSubmatch(str)
    IN  IF ~m.ok THEN [a |-> 0, err |-> "amount"]
        ELSE LET digits == m.m2 \o m.m4
                 a      == Atoi(digits)
             IN  [a |-> IF m.m1 = <<"-">> THEN a * (-1) ELSE a, err |-> "nil"]

\* strconv.Itoa of a natural number.
RECURSIVE Itoa(_)
Itoa(k) ==
    IF k < 10 THEN <<DigitChars[k + 1]>>
    ELSE Append(Itoa(k \div 10), DigitChars[(k % 10) + 1])

\* Mutant of Pad2: "%d" in the place of "%02d".
PadNone(k) == Itoa(k)

\* fmt.Sprintf("%02d", k) for 0 <= k < 100.
Pad2(k) == IF k < 10 THEN <<"0">> \o Itoa(k) ELSE Itoa(k)

\* Amount: the atoms as a decimal string with two fractional digits.
Amount(m) ==
    LET neg == IF m.a < 0 THEN <<"-">> ELSE <<>>
        a   == IF m.a < 0 THEN m.a * (-1) ELSE m.a
        maj == Itoa(a \div 100)
        min == Pad2(a % 100)
    IN  neg \o maj \o <<".">> \o min

\* Mutant of AddSub: the check compares the two Money values, not their
\* currencies.
AddSubWholeCheck(p, q, add) ==
    IF p # q
    THEN [m |-> ZeroMoney, err |-> "mismatch"]
    ELSE [m |-> Money(p.c, IF add THEN p.a + q.a ELSE p.a - q.a), err |-> "nil"]

\* addSub: the sum or the difference in the shared currency, or an error
\* when the currencies differ.
AddSub(p, q, add) ==
    IF Currency(p) # Currency(q)
    THEN [m |-> ZeroMoney, err |-> "mismatch"]
    ELSE [m |-> Money(p.c, IF add THEN p.a + q.a ELSE p.a - q.a), err |-> "nil"]

\* Mul: x.a * f in x's currency, never an error.
Mul(m, f) == Money(m.c, m.a * f)

\* Cmp: -1, 0 or +1 as p is below, equal to or above q, or an error when
\* the currencies differ.
Cmp(p, q) ==
    IF Currency(p) # Currency(q)
    THEN [c |-> 0, err |-> "mismatch"]
    ELSE [c |-> IF p.a < q.a THEN -1 ELSE IF p.a = q.a THEN 0 ELSE 1, err |-> "nil"]

\* What the variables of New, Amount, Add, Sub and Cmp hold while none of
\* them has run.
MoneyIdle ==
    /\ cur = ""
    /\ amt = <<>>
    /\ err = "nil"
    /\ out = <<>>
    /\ y = ZeroMoney
    /\ z = ZeroMoney
    /\ cmp = 0

\* What the variables of Share hold while it has not run.
ShareIdle ==
    /\ weightings = <<>>
    /\ given = <<>>
    /\ n = 0
    /\ sum = 0
    /\ allocations = <<>>
    /\ rem = 0
    /\ d = 1
    /\ i = 0
    /\ res = <<>>
    /\ prev = <<>>
    /\ calls = <<>>

\* ---- New and Amount

\* The characters of the amount strings passed to New: a sign, a point, the
\* digits up to MaxDigit and a character no amount may hold.
Chars == {"-", ".", "f"} \cup {DigitChars[k + 1] : k \in 0..MaxDigit}

\* The amount strings passed to New: every string of at most MaxLen Chars.
AmountInputs == UNION {[1..k -> Chars] : k \in 0..MaxLen}

\* The currency codes passed to New.
CurrencyInputs == {"GBP", "AUD", "FOO", "GB"}

\* New(cur, amt), lines 25-39.
NewMoney ==
    /\ pc = "new"
    /\ LET c == ParseISO(cur)
           a == StrToInt(amt)
       IN  IF c.err # "nil"
           THEN x' = ZeroMoney /\ err' = c.err
           ELSE IF a.err # "nil"
           THEN x' = ZeroMoney /\ err' = a.err
           ELSE x' = Money(c.unit, a.a) /\ err' = "nil"
    /\ pc' = "made"
    /\ UNCHANGED <<cur, amt, out, y, z, cmp, shareVars, calls>>

\* x.Amount() on the Money New returned, lines 66-77.
ShowAmount ==
    /\ pc = "made"
    /\ err = "nil"
    /\ out' = Amount(x)
    /\ pc' = "shown"
    /\ UNCHANGED <<x, cur, amt, err, y, z, cmp, shareVars, calls>>

InitNew ==
    /\ cur \in CurrencyInputs
    /\ amt \in AmountInputs
    /\ x = ZeroMoney
    /\ pc = "new"
    /\ err = "nil"
    /\ out = <<>>
    /\ y = ZeroMoney
    /\ z = ZeroMoney
    /\ cmp = 0
    /\ ShareIdle

NextNew ==
    \/ NewMoney
    \/ ShowAmount

SpecNew == InitNew /\ [][NextNew]_vars

\* ---- Add, Sub and Cmp

\* The Money values passed to Add, Sub and Cmp.
Operands == {Money(c, a) : c \in Units, a \in -MaxOperand..MaxOperand}

\* x.Add(y), lines 80-82.
Add ==
    /\ pc = "pair"
    /\ LET r == AddSub(x, y, TRUE)
       IN  z' = r.m /\ err' = r.err
    /\ pc' = "added"
    /\ UNCHANGED <<x, y, cur, amt, out, cmp, shareVars, calls>>

\* x.Sub(y), lines 85-87.
Sub ==
    /\ pc = "pair"
    /\ LET r == AddSub(x, y, FALSE)
       IN  z' = r.m /\ err' = r.err
    /\ pc' = "subtracted"
    /\ UNCHANGED <<x, y, cur, amt, out, cmp, shareVars, calls>>

\* x.Cmp(y), lines 124-138.
Compare ==
    /\ pc = "pair"
    /\ LET r == Cmp(x, y)
       IN  cmp' = r.c /\ err' = r.err
    /\ pc' = "compared"
    /\ UNCHANGED <<x, y, z, cur, amt, out, shareVars, calls>>

InitArith ==
    /\ x \in Operands
    /\ y \in Operands
    /\ pc = "pair"
    /\ cur = ""
    /\ amt = <<>>
    /\ err = "nil"
    /\ out = <<>>
    /\ z = ZeroMoney
    /\ cmp = 0
    /\ ShareIdle

NextArith ==
    \/ Add
    \/ Sub
    \/ Compare

SpecArith == InitArith /\ [][NextArith]_vars

\* ------------------------------------------------------------------ Share

RECURSIVE SeqSum(_)
SeqSum(q) == IF q = <<>> THEN 0 ELSE q[1] + SeqSum(Tail(q))

\* The weighting slices a caller may pass: 1 to MaxN weights in 0..MaxWeight.
Weightings == UNION {[1..k -> 0..MaxWeight] : k \in 1..MaxN}

\* Mutant of Fallback: only the first weighting is overwritten.
FallbackFirstOnly(ws) == [k \in 1..Len(ws) |-> IF k = 1 THEN 1 ELSE ws[k]]

\* The zero-sum fallback: every weighting is overwritten with 1, in place.
Fallback(ws) == [k \in 1..Len(ws) |-> 1]

\* ratios[k] = float64(weightings[k]) / float64(sum).
Ratio(w, total) == FDiv(w, total)

\* a := int(math.Trunc(ratios[k] * fa)), the allocation before the remainder
\* is distributed.
Allocate(ratio, a) == TruncInt(FMul(ratio, FromInt(a)))

\* Lines 156 and 163 for every weighting, sum and amount within the bounds,
\* computed once: Allocations[w][total][a] is what the loop of lines 162-166
\* stores for a party of weighting w when the weightings sum to total and
\* the amount is a.
Allocations ==
    [w \in 0..MaxWeight |-> [total \in 1..(MaxN * MaxWeight + MaxN) |->
        [a \in -MaxAtoms..MaxAtoms |-> Allocate(Ratio(w, total), a)]]]

\* Mutant of Direction: the remainder is always handed out upwards.
DirectionUp(r) == 1

\* d := 1; if rem < 0 { d = -1 }
Direction(r) == IF r < 0 THEN -1 ELSE 1

\* Mutant of Skipped: the remainder loop skips nobody.
SkippedNever(ws, ind) == FALSE

\* if weightings[ind] == 0 { continue }
Skipped(ws, ind) == ws[ind + 1] = 0

\* Mutant of Bump: the loop always adds a unit, whatever the direction.
BumpUp(al, ind, unit) == [al EXCEPT ![ind + 1] = @ + 1]

\* allocations[ind] += d
Bump(al, ind, unit) == [al EXCEPT ![ind + 1] = @ + unit]

\* Lines 143-153: n, sum and, when the sum is 0, the fallback, which writes
\* to the slice the caller passed.
ShareSum ==
    /\ pc = "share"
    /\ n' = Len(weightings)
    /\ LET total == SeqSum(weightings)
       IN  IF total = 0
           THEN /\ weightings' = Fallback(weightings)
                /\ sum' = Len(weightings)
           ELSE /\ weightings' = weightings
                /\ sum' = total
    /\ pc' = "allocate"
    /\ UNCHANGED <<x, given, allocations, rem, d, i, res, prev, moneyVars, calls>>

\* Lines 154-170: the ratios, the truncated allocations, the remainder and
\* its direction.
ShareAllocate ==
    /\ pc = "allocate"
    /\ allocations' = [k \in 1..n |-> Allocations[weightings[k]][sum][x.a]]
    /\ rem' = x.a - SeqSum(allocations')
    /\ d' = Direction(rem')
    /\ i' = 0
    /\ pc' = "distribute"
    /\ UNCHANGED <<x, weightings, given, n, sum, res, prev, moneyVars, calls>>

\* Lines 171-178: one turn of the remainder loop, for the first MaxTurns
\* turns.
ShareDistribute ==
    /\ pc = "distribute"
    /\ rem # 0
    /\ i < MaxTurns
    /\ LET ind == i % n
       IN  IF Skipped(weightings, ind)
           THEN UNCHANGED <<allocations, rem>>
           ELSE /\ allocations' = Bump(allocations, ind, d)
                /\ rem' = rem + (-d)
    /\ i' = i + 1
    /\ UNCHANGED <<x, weightings, given, pc, n, sum, d, res, prev, moneyVars, calls>>

\* Lines 180-198: the conservation check (a panic when it fails) and the
\* Money values returned.
ShareReturn ==
    /\ pc = "distribute"
    /\ rem = 0
    /\ IF SeqSum(allocations) # x.a
       THEN /\ pc' = "panic"
            /\ res' = res
       ELSE /\ pc' = "done"
            /\ res' = [k \in 1..Len(allocations) |-> Money(x.c, allocations[k])]
    /\ UNCHANGED <<x, weightings, given, n, sum, allocations, rem, d, i, prev, moneyVars, calls>>

\* The caller shares the mirrored amount, x.Mul(-1), by the slice it holds.
ShareMirror ==
    /\ pc = "done"
    /\ prev = <<>>
    /\ x' = Mul(x, -1)
    /\ prev' = res
    /\ given' = weightings
    /\ pc' = "share"
    /\ UNCHANGED <<weightings, n, sum, allocations, rem, d, i, res, moneyVars, calls>>

Init ==
    /\ x \in {Money("GBP", a) : a \in -MaxAtoms..MaxAtoms}
    /\ weightings \in Weightings
    /\ given = weightings
    /\ pc = "share"
    /\ n = 0
    /\ sum = 0
    /\ allocations = <<>>
    /\ rem = 0
    /\ d = 1
    /\ i = 0
    /\ res = <<>>
    /\ prev = <<>>
    /\ calls = <<>>
    /\ MoneyIdle

Next ==
    \/ ShareSum
    \/ ShareAllocate
    \/ ShareDistribute
    \/ ShareReturn
    \/ ShareMirror

Spec == Init /\ [][Next]_vars

\* A call of Share is straight-line code on one goroutine: once called, it
\* keeps taking its steps.  Whether the caller calls again is up to the
\* caller.
SpecFair ==
    /\ Init
    /\ [][Next]_vars
    /\ WF_vars(ShareSum \/ ShareAllocate \/ ShareDistribute \/ ShareReturn)

\* ---- Share as a function of its arguments

\* Lines 171-178 run from turn `turn` until the remainder is 0.
RECURSIVE Distribute(_, _, _, _, _)
Distribute(ws, al, r, unit, turn) ==
    IF r = 0 \/ turn >= MaxTurns
    THEN al
    ELSE IF Skipped(ws, turn % Len(ws))
         THEN Distribute(ws, al, r, unit, turn + 1)
         ELSE Distribute(ws, Bump(al, turn % Len(ws), unit), r + (-unit), unit,
                         turn + 1)

\* What m.Share(ws) returns when nothing else touches ws while it runs.
ShareAlone(m, ws) ==
    LET eff == IF SeqSum(ws) = 0 THEN Fallback(ws) ELSE ws
        total == SeqSum(eff)
        al == [k \in 1..Len(ws) |-> Allocations[eff[k]][total][m.a]]
        r == m.a - SeqSum(al)
        fin == Distribute(eff, al, r, Direction(r), 0)
    IN  [k \in 1..Len(ws) |-> Money(m.c, fin[k])]

\* ---- Share called in parallel on one slice

\* The goroutines that call Share.
Callers == {1, 2}

\* The variables of the one-call specifications, which stay as they are
\* while the parallel calls run.
aloneVars == <<x, pc, n, sum, allocations, rem, d, i, res, prev>>

\* A call that has just been entered: n := len(weightings) (line 143), sum
\* 0, no element summed (k), none written (w), no ratio taken (ws).
StartCall(m, ws) ==
    [x |-> m, pc |-> "sum", k |-> 0, n |-> Len(ws), sum |-> 0, w |-> 0,
     ws |-> <<>>, allocations |-> <<>>, rem |-> 0, d |-> 1, i |-> 0,
     res |-> <<>>]

\* The values call c may read from weightings[k - 1] (k counted from 1).
\* Nothing orders the calls' reads and writes of the slice, so a read of an
\* element that another call has written is a data race: it gives the value
\* the slice came with or the value written.  A call reads back what it has
\* written itself.
Seen(c, k) ==
    IF k <= calls[c].w THEN {weightings[k]} ELSE {given[k], weightings[k]}

\* Lines 145-148: one turn of the summing loop; after the last, the branch
\* on sum == 0.
ParSum(c) ==
    /\ calls[c].pc = "sum"
    /\ \E v \in Seen(c, calls[c].k + 1) :
          LET me == calls[c]
              total == me.sum + v
              last == me.k + 1 = me.n
          IN  calls' = [calls EXCEPT ![c] =
                  [me EXCEPT !.sum = total,
                             !.k = IF last THEN 0 ELSE me.k + 1,
                             !.pc = IF ~last THEN "sum"
                                    ELSE IF total = 0 THEN "fallback"
                                    ELSE "ratios"]]
    /\ UNCHANGED <<weightings, given, aloneVars, moneyVars>>

\* Lines 149-152: one turn of the fallback loop, a write to the slice;
\* after the last, sum = uint(n).
ParFallback(c) ==
    /\ calls[c].pc = "fallback"
    /\ LET me == calls[c]
           last == me.k + 1 = me.n
       IN  /\ weightings' = [weightings EXCEPT ![me.k + 1] = 1]
           /\ calls' = [calls EXCEPT ![c] =
                  [me EXCEPT !.w = me.k + 1,
                             !.k = IF last THEN 0 ELSE me.k + 1,
                             !.sum = IF last THEN me.n ELSE me.sum,
                             !.pc = IF last THEN "ratios" ELSE "fallback"]]
    /\ UNCHANGED <<given, aloneVars, moneyVars>>

\* Lines 155-157: one turn of the ratio loop, a read of the slice; after the
\* last, lines 159-170, which work on the call's own ratios.
ParRatio(c) ==
    /\ calls[c].pc = "ratios"
    /\ \E v \in Seen(c, calls[c].k + 1) :
          LET me == calls[c]
              ws == Append(me.ws, v)
              last == me.k + 1 = me.n
              al == [k \in 1..me.n |-> Allocations[ws[k]][me.sum][me.x.a]]
              r == me.x.a - SeqSum(al)
          IN  calls' = [calls EXCEPT ![c] =
                  IF last
                  THEN [me EXCEPT !.ws = ws, !.k = 0, !.allocations = al,
                                  !.rem = r, !.d = Direction(r), !.i = 0,
                                  !.pc = "distribute"]
                  ELSE [me EXCEPT !.ws = ws, !.k = me.k + 1]]
    /\ UNCHANGED <<weightings, given, aloneVars, moneyVars>>

\* Lines 171-178: one turn of the remainder loop, with its read of the
\* slice, for the first MaxTurns turns.
ParDistribute(c) ==
    /\ calls[c].pc = "distribute"
    /\ calls[c].rem # 0
    /\ calls[c].i < MaxTurns
    /\ LET me == calls[c]
           ind == me.i % me.n
       IN  \E v \in Seen(c, ind + 1) :
              calls' = [calls EXCEPT ![c] =
                  IF Skipped([weightings EXCEPT ![ind + 1] = v], ind)
                  THEN [me EXCEPT !.i = me.i + 1]
                  ELSE [me EXCEPT !.allocations = Bump(me.allocations, ind, me.d),
                                  !.rem = me.rem + (-me.d),
                                  !.i = me.i + 1]]
    /\ UNCHANGED <<weightings, given, aloneVars, moneyVars>>

\* Lines 180-198: the conservation check and the Money values returned.
ParReturn(c) ==
    /\ calls[c].pc = "distribute"
    /\ calls[c].rem = 0
    /\ LET me == calls[c]
       IN  calls' = [calls EXCEPT ![c] =
               IF SeqSum(me.allocations) # me.x.a
               THEN [me EXCEPT !.pc = "panic"]
               ELSE [me EXCEPT !.pc = "done",
                               !.res = [k \in 1..Len(me.allocations) |->
                                           Money(me.x.c, me.allocations[k])]]]
    /\ UNCHANGED <<weightings, given, aloneVars, moneyVars>>

\* Two goroutines are handed the same slice and call Share on it, each on
\* its own Money.
InitPar ==
    /\ weightings \in Weightings
    /\ given = weightings
    /\ calls \in [Callers -> {StartCall(Money("GBP", a), weightings) :
                                 a \in -MaxParAtoms..MaxParAtoms}]
    /\ x = ZeroMoney
    /\ pc = "par"
    /\ n = 0
    /\ sum = 0
    /\ allocations = <<>>
    /\ rem = 0
    /\ d = 1
    /\ i = 0
    /\ res = <<>>
    /\ prev = <<>>
    /\ MoneyIdle

NextPar ==
    \E c \in Callers :
        \/ ParSum(c)
        \/ ParFallback(c)
        \/ ParRatio(c)
        \/ ParDistribute(c)
        \/ ParReturn(c)

SpecPar == InitPar /\ [][NextPar]_vars

\* ------------------------------------------------------------------ claims

\* The quotient p / q (q > 0) truncated toward zero.
TruncQuot(p, q) == IF p < 0 THEN -((-p) \div q) ELSE p \div q

Sign(k) == IF k > 0 THEN 1 ELSE IF k < 0 THEN -1 ELSE 0

\* C1: Share returns normally, with one Money per weighting, whose atoms sum
\* to exactly x.a: the conservation panic is never reached.
C1_Conservation ==
    /\ pc # "panic"
    /\ pc = "done" =>
         /\ Len(res) = Len(given)
         /\ SeqSum([k \in 1..Len(res) |-> res[k].a]) = x.a

\* The atoms of a sequence of Money.
Atoms(ms) == [k \in 1..Len(ms) |-> ms[k].a]

C1_Witness ==
    /\ pc = "done"
    /\ x.a = -5
    /\ given = <<1, 1, 1>>
    /\ Atoms(res) = <<-2, -2, -1>>

\* C3: Share never modifies the weighting sequence the caller passed: the
\* caller's slice always holds what it held when it was passed.
C3_WeightingsUntouched == weightings = given

\* C4: when every weighting passed is 0, Share returns the equal split of
\* x.a between the N parties (what N ones give): each party gets x.a / N
\* truncated, and the remainder goes one unit each to the earliest parties.
C4_ZeroFallback ==
    (pc = "done" /\ \A k \in 1..Len(given) : given[k] = 0) =>
        LET cnt  == Len(given)
            each == TruncQuot(x.a, cnt)
            left == x.a - cnt * each
        IN  /\ Len(res) = cnt
            /\ \A k \in 1..cnt :
                 res[k].a = each + (IF k <= Abs(left) THEN Sign(left) ELSE 0)

C4_Witness ==
    /\ pc = "done"
    /\ given = <<0, 0, 0>>
    /\ x.a = 5
    /\ Atoms(res) = <<2, 2, 1>>

\* C5: when some weighting passed is not 0, a party whose weighting is 0
\* holds 0 atoms after the truncated allocation, after every turn of the
\* remainder loop, and in the result.
C5_ZeroWeightGetsNothing ==
    \A k \in 1..Len(given) :
        (given[k] = 0 /\ \E j \in 1..Len(given) : given[j] # 0) =>
            /\ pc = "distribute" => allocations[k] = 0
            /\ pc = "done" => res[k].a = 0

C5_Witness ==
    /\ pc = "done"
    /\ given = <<0, 1, 1>>
    /\ x.a = 1
    /\ Atoms(res) = <<0, 1, 0>>

\* The result C6 describes: t[k] is the exact proportional share truncated
\* toward zero, r the amount less their sum; the first |r| parties of
\* non-zero weighting get t[k] + sign(r), every other party t[k].
ExactShare(a, ws) ==
    LET total == SeqSum(ws)
        t     == [k \in 1..Len(ws) |-> TruncQuot(ws[k] * a, total)]
        r     == a - SeqSum(t)
        rank  == [k \in 1..Len(ws) |-> Cardinality({j \in 1..(k - 1) : ws[j] # 0})]
    IN  [k \in 1..Len(ws) |->
            t[k] + (IF ws[k] # 0 /\ rank[k] < Abs(r) THEN Sign(r) ELSE 0)]

\* C6: Share returns t[k] + sign(r) for the first |r| parties of non-zero
\* weighting and t[k] for every other party, where t[k] is the exact
\* proportional share truncated toward zero and r = x.a - sum(t).
C6_RemainderOrder ==
    pc = "done" => Atoms(res) = ExactShare(x.a, weightings)

\* C7: sharing the mirrored amount gives the mirrored shares: party k of
\* Share(-x, w) gets minus what party k of Share(x, w) got.
C7_NegativeMirrors ==
    (pc = "done" /\ prev # <<>>) =>
        /\ Len(res) = Len(prev)
        /\ \A k \in 1..Len(res) : res[k].a = -(prev[k].a)

C7_Witness ==
    /\ pc = "done"
    /\ x.a = -5
    /\ given = <<3, 4>>
    /\ Atoms(prev) = <<3, 2>>
    /\ Atoms(res) = <<-3, -2>>

\* C10: the allocation of party k before the remainder is distributed is
\* the exact quotient weightings[k] * x.a / sum, truncated toward zero.
C10_ExactQuotient ==
    (pc = "distribute" /\ i = 0) =>
        \A k \in 1..n : allocations[k] = TruncQuot(weightings[k] * x.a, sum)

\* ---- claims about New, Amount, Add, Sub and Cmp

\* C2: the atoms New stores for an accepted amount string are
\* sign * (integerPart * 100 + fractionalPart), the fractional part being 0
\* when the string has none.
C2_AtomsFormula ==
    (pc = "made" /\ err = "nil") =>
        LET m    == FindStringSubmatch(amt)
            sign == IF m.m1 = <<"-">> THEN -1 ELSE 1
        IN  x.a = sign * (Atoi(m.m2) * 100 + Atoi(m.m4))

\* A canonical decimal string: an optional sign, an integer part, a point
\* and exactly two fractional digits.
Canonical(str) ==
    LET m == FindStringSubmatch(str)
    IN  m.ok /\ Len(m.m4) = 2

\* C8 as stated: for every canonical decimal string and valid currency, New
\* succeeds and Amount gives the string back.
C8_RoundTrip ==
    (Canonical(amt) /\ ParseISO(cur).err = "nil") =>
        /\ pc = "made" => err = "nil"
        /\ pc = "shown" => out = amt

\* A canonical decimal string as Amount writes it: no zero before a further
\* digit of the integer part, and no sign on a zero amount.
Plain(str) ==
    LET m == FindStringSubmatch(str)
    IN  /\ Canonical(str)
        /\ Len(m.m2) > 1 => m.m2[1] # "0"
        /\ m.m1 = <<"-">> => \E k \in 1..Len(m.m2 \o m.m4) : (m.m2 \o m.m4)[k] # "0"

\* C8, amended: for every canonical decimal string whose integer part has no
\* leading zero (other than the single digit 0) and that is not a signed
\* zero, and every valid currency, New succeeds and Amount gives the string
\* back.
C8_RoundTripPlain ==
    (Plain(amt) /\ ParseISO(cur).err = "nil") =>
        /\ pc = "made" => err = "nil"
        /\ pc = "shown" => out = amt

C8_Witness ==
    /\ pc = "shown"
    /\ cur = "AUD"
    /\ amt = <<"-", "1", ".", "0", "2">>
    /\ x = Money("AUD", -102)
    /\ out = amt

\* C9: Add, Sub and Cmp return an error exactly when the two Money values
\* have different currency codes.
C9_ErrorIffMismatch ==
    pc \in {"added", "subtracted", "compared"} =>
        (err # "nil" <=> Currency(x) # Currency(y))

C9_Witness ==
    /\ pc = "compared"
    /\ x = Money("GBP", 1)
    /\ y = Money("AUD", 1)
    /\ err = "mismatch"

\* C11: every call of Share returns: whenever the remainder loop has a
\* remainder left, d has the sign of the remainder, some weighting is not
\* zero and the loop is within the turns followed, and a call that has
\* started reaches its return.
C11_Terminates ==
    /\ [](pc = "distribute" /\ rem # 0 =>
            /\ d = Sign(rem)
            /\ \E k \in 1..n : weightings[k] # 0
            /\ i < MaxTurns)
    /\ (pc = "share" ~> pc = "done")

\* -0.01 by <<0, 1, 1>>: the loop skips the first party, takes the atom
\* back from the second and ends.
C11_Witness ==
    /\ pc = "done"
    /\ given = <<0, 1, 1>>
    /\ x.a = -1
    /\ d = -1
    /\ i = 2

\* C12: under every interleaving of two calls of Share on one slice, a
\* call that returns has returned what it returns when run alone on the
\* slice as it was handed over.
C12_NoInterference ==
    \A c \in DOMAIN calls :
        calls[c].pc = "done" => calls[c].res = ShareAlone(calls[c].x, given)

====
